---------------------------- MODULE Spec2Model ----------------------------
(***************************************************************************)
(* Model of aten/src/ATen/mkl/MklAllocationHelp.cpp.                       *)
(*                                                                         *)
(* The translation unit defines one function,                              *)
(* register_mimalloc_api_to_mkl(), which stores the four mimalloc wrappers *)
(* into MKL's four allocation hooks (i_malloc, i_calloc, i_realloc,        *)
(* i_free) with four plain assignments and returns true, and one static    *)
(* object, g_b_registered_mkl_alloction, whose dynamic initializer calls   *)
(* that function.  Both exist only when AT_MKLDNN_ENABLED() is non-zero    *)
(* and USE_MIMALLOC_ON_MKL is defined.                                     *)
(*                                                                         *)
(* The function has external linkage, so besides the static initializer    *)
(* (thread StaticInit) the model has NumCallers further threads that may   *)
(* call it.  Each of the four assignments is a step of its own: they are   *)
(* plain stores, with no lock and no atomic, so other threads run between  *)
(* them.  A host allocation reads one hook; a read that races with the     *)
(* store of the same hook yields the old or the new value.                 *)
(***************************************************************************)
EXTENDS Naturals, Sequences, FiniteSets

\* Bounds of the model: threads other than the static initializer that call
\* the function, and the calls they make in total.
NumCallers == 2
MaxCalls == 2

\* The thread that runs the dynamic initializer of line 26.
StaticInit == 0
Callers == 1..NumCallers
Threads == {StaticInit} \cup Callers

\* The four kinds of allocation request, one per hook.
Kinds == {"malloc", "calloc", "realloc", "free"}

\* What each hook holds before anything is stored into it: the host's own
\* built-in function of that kind.
Default(kind) == kind

\* The mimalloc wrappers named on lines 18-21.
c10_mi_malloc == "c10_mi_malloc"
c10_mi_calloc == "c10_mi_calloc"
c10_mi_realloc == "c10_mi_realloc"
c10_mi_free == "c10_mi_free"

\* The right-hand side the function assigns to the hook of each kind.
MiWrapper(kind) ==
  CASE kind = "malloc" -> c10_mi_malloc
    [] kind = "calloc" -> c10_mi_calloc
    [] kind = "realloc" -> c10_mi_realloc
    [] kind = "free" -> c10_mi_free

VARIABLES
  AT_MKLDNN_ENABLED,            \* value of the macro of line 4
  USE_MIMALLOC_ON_MKL,          \* whether the macro of line 5 is defined
  i_malloc, i_calloc, i_realloc, i_free,   \* the host's four hooks
  g_b_registered_mkl_alloction, \* the static of line 26
  pc,                           \* each thread's position
  stores,                       \* history: stores made by each thread's call
  initValue,                    \* the value the initializer's call returned
  calls,                        \* history: one record per call that returned
  maxInCall,                    \* history: the most calls in progress at once
  lastAlloc                     \* history: the latest host allocation request,
                                \* with the calls that had returned before it

vars == <<AT_MKLDNN_ENABLED, USE_MIMALLOC_ON_MKL, i_malloc, i_calloc,
          i_realloc, i_free, g_b_registered_mkl_alloction, pc, stores,
          initValue, calls, maxInCall, lastAlloc>>

hooks == <<i_malloc, i_calloc, i_realloc, i_free>>
switches == <<AT_MKLDNN_ENABLED, USE_MIMALLOC_ON_MKL>>

\* Faulty variant of Enabled: the two guards joined by "or".
EnabledEither == AT_MKLDNN_ENABLED \/ USE_MIMALLOC_ON_MKL
\* The nested guards of lines 4-5: the code exists only under both.
Enabled == AT_MKLDNN_ENABLED /\ USE_MIMALLOC_ON_MKL

\* The hook an allocation request of each kind goes through.
Hook(kind) ==
  CASE kind = "malloc" -> i_malloc
    [] kind = "calloc" -> i_calloc
    [] kind = "realloc" -> i_realloc
    [] kind = "free" -> i_free

\* The line of the function that stores the hook of each kind.
StoreLine(kind) ==
  CASE kind = "malloc" -> "L18"
    [] kind = "calloc" -> "L19"
    [] kind = "realloc" -> "L20"
    [] kind = "free" -> "L21"

\* Faulty variant of RetVal: true only for the call that returns first.
RetValFirstOnly == Len(calls) = 0
\* The value of the return statement of line 23.
RetVal == TRUE

\* No host allocation request yet.
NoAlloc == [kind |-> "none", target |-> "none", returned |-> 0]

InCall(t) == pc[t] \in {"L18", "L19", "L20", "L21", "L23"}
\* The calls that have returned, in the order of their return.
Returned == 1..Len(calls)
AnyReturned == Len(calls) > 0

\* The slot as a whole: the four wrappers of lines 18-21, and the host's
\* four built-in functions.
MiVTable == <<MiWrapper("malloc"), MiWrapper("calloc"), MiWrapper("realloc"),
              MiWrapper("free")>>
DefaultVTable == <<Default("malloc"), Default("calloc"), Default("realloc"),
                   Default("free")>>

Init ==
  /\ AT_MKLDNN_ENABLED \in BOOLEAN
  /\ USE_MIMALLOC_ON_MKL \in BOOLEAN
  /\ i_malloc = Default("malloc")
  /\ i_calloc = Default("calloc")
  /\ i_realloc = Default("realloc")
  /\ i_free = Default("free")
  /\ g_b_registered_mkl_alloction = FALSE
  /\ pc = [t \in Threads |-> IF t = StaticInit THEN "load" ELSE "idle"]
  /\ stores = [t \in Threads |-> 0]
  /\ initValue = FALSE
  /\ calls = <<>>
  /\ maxInCall = 0
  /\ lastAlloc = NoAlloc

\* Entry into register_mimalloc_api_to_mkl() by thread t.
Enter(t) ==
  /\ Enabled
  /\ pc' = [pc EXCEPT ![t] = "L18"]
  /\ maxInCall' = LET n == Cardinality({u \in Threads : InCall(u)}) + 1
                  IN  IF n > maxInCall THEN n ELSE maxInCall
  /\ UNCHANGED <<switches, hooks, g_b_registered_mkl_alloction, stores,
                 initValue, calls, lastAlloc>>

\* Line 26: the dynamic initializer starts its one call.
StaticInitCall ==
  /\ pc[StaticInit] = "load"
  /\ Enter(StaticInit)

\* A call of the function from elsewhere in the program.
CallerCall(t) ==
  /\ t \in Callers
  /\ pc[t] = "idle"
  /\ Cardinality({c \in 1..Len(calls) : ~calls[c].static})
       + Cardinality({u \in Callers : InCall(u)}) < MaxCalls
  /\ Enter(t)

\* Bookkeeping of one store by thread t's current call.
Stored(t, next) ==
  /\ pc' = [pc EXCEPT ![t] = next]
  /\ stores' = [stores EXCEPT ![t] = @ + 1]
  /\ UNCHANGED <<switches, g_b_registered_mkl_alloction, initValue, calls,
                 maxInCall, lastAlloc>>

\* Faulty variant of StoreMalloc: a toggle, so a second call puts the default back.
StoreMallocToggle(t) ==
  /\ pc[t] = "L18"
  /\ i_malloc' = IF i_malloc = c10_mi_malloc THEN Default("malloc")
                                             ELSE c10_mi_malloc
  /\ UNCHANGED <<i_calloc, i_realloc, i_free>>
  /\ Stored(t, "L19")
\* Line 18.
StoreMalloc(t) ==
  /\ pc[t] = "L18"
  /\ i_malloc' = c10_mi_malloc
  /\ UNCHANGED <<i_calloc, i_realloc, i_free>>
  /\ Stored(t, "L19")

\* Faulty variant of StoreCalloc: the wrapper of the wrong kind.
StoreCallocWrongKind(t) ==
  /\ pc[t] = "L19"
  /\ i_calloc' = c10_mi_malloc
  /\ UNCHANGED <<i_malloc, i_realloc, i_free>>
  /\ Stored(t, "L20")
\* Line 19.
StoreCalloc(t) ==
  /\ pc[t] = "L19"
  /\ i_calloc' = c10_mi_calloc
  /\ UNCHANGED <<i_malloc, i_realloc, i_free>>
  /\ Stored(t, "L20")

\* Faulty variant of StoreRealloc: only a call that finds the hook unset stores it,
\* and a call that finds it set stores nothing.
StoreReallocOnce(t) ==
  /\ pc[t] = "L20"
  /\ UNCHANGED <<i_malloc, i_calloc, i_free>>
  /\ IF i_realloc = Default("realloc")
       THEN i_realloc' = c10_mi_realloc /\ Stored(t, "L21")
       ELSE /\ pc' = [pc EXCEPT ![t] = "L21"]
            /\ UNCHANGED <<i_realloc, switches, g_b_registered_mkl_alloction,
                           stores, initValue, calls, maxInCall, lastAlloc>>
\* Line 20.
StoreRealloc(t) ==
  /\ pc[t] = "L20"
  /\ i_realloc' = c10_mi_realloc
  /\ UNCHANGED <<i_malloc, i_calloc, i_free>>
  /\ Stored(t, "L21")

\* Faulty variant of StoreFree: the assignment is left out.
StoreFreeSkipped(t) ==
  /\ pc[t] = "L21"
  /\ UNCHANGED hooks
  /\ Stored(t, "L23")
\* Line 21.
StoreFree(t) ==
  /\ pc[t] = "L21"
  /\ i_free' = c10_mi_free
  /\ UNCHANGED <<i_malloc, i_calloc, i_realloc>>
  /\ Stored(t, "L23")

\* Line 23: the call of thread t returns RetVal.  The static initializer goes
\* on to initialize its object with the value; another caller drops it.
Return(t) ==
  /\ pc[t] = "L23"
  /\ calls' = Append(calls, [static |-> (t = StaticInit),
                             stores |-> stores[t], value |-> RetVal])
  /\ stores' = [stores EXCEPT ![t] = 0]
  /\ initValue' = IF t = StaticInit THEN RetVal ELSE initValue
  /\ pc' = [pc EXCEPT ![t] = IF t = StaticInit THEN "L26" ELSE "idle"]
  /\ UNCHANGED <<switches, hooks, g_b_registered_mkl_alloction, maxInCall,
                 lastAlloc>>

\* Faulty variant of InitAssign: the result of the call is dropped.
InitAssignDropped ==
  /\ pc[StaticInit] = "L26"
  /\ pc' = [pc EXCEPT ![StaticInit] = "done"]
  /\ UNCHANGED <<switches, hooks, g_b_registered_mkl_alloction, stores,
                 initValue, calls, maxInCall, lastAlloc>>
\* Line 26: the static object takes the value its initializer's call returned.
InitAssign ==
  /\ pc[StaticInit] = "L26"
  /\ g_b_registered_mkl_alloction' = initValue
  /\ pc' = [pc EXCEPT ![StaticInit] = "done"]
  /\ UNCHANGED <<switches, hooks, stores, initValue, calls, maxInCall,
                 lastAlloc>>

\* The values a read of the hook of `kind` can yield: the stored value, or,
\* when some thread is at the unsynchronized store of that hook, the value
\* being stored.
RacyRead(kind) ==
  {Hook(kind)} \cup
  {MiWrapper(kind) : t \in {u \in Threads : pc[u] = StoreLine(kind)}}

\* The host library serves one allocation request of `kind`: it calls
\* through the hook of that kind.
HostAlloc(kind) ==
  /\ \E target \in RacyRead(kind) :
       lastAlloc' = [kind |-> kind, target |-> target,
                     returned |-> Len(calls)]
  /\ UNCHANGED <<switches, hooks, g_b_registered_mkl_alloction, pc, stores,
                 initValue, calls, maxInCall>>

Next ==
  \/ StaticInitCall
  \/ \E t \in Callers : CallerCall(t)
  \/ \E t \in Threads : StoreMalloc(t)
  \/ \E t \in Threads : StoreCalloc(t)
  \/ \E t \in Threads : StoreRealloc(t)
  \/ \E t \in Threads : StoreFree(t)
  \/ \E t \in Threads : Return(t)
  \/ InitAssign
  \/ \E kind \in Kinds : HostAlloc(kind)

Spec == Init /\ [][Next]_vars

----------------------------------------------------------------------------
(* Vocabulary of the properties. *)

\* The slot is Unset: every hook still holds the host's built-in function.
Unset == hooks = DefaultVTable
\* The slot is Set: every hook holds the mimalloc wrapper of its kind.
Set == hooks = MiVTable

\* The two results the specification names, and the ways of reading the
\* function's one boolean result as one of them.
RegistrationResults == {"Installed", "AlreadyInstalled"}
Readings == [BOOLEAN -> RegistrationResults]

\* The number of calls made so far, and of those made by the static
\* initializer.
NumCalls == Len(calls) + Cardinality({t \in Threads : InCall(t)})
NumStaticCalls ==
  Cardinality({c \in Returned : calls[c].static})
    + (IF InCall(StaticInit) THEN 1 ELSE 0)
\* The number of calls that have performed at least one store into the slot.
NumWriters ==
  Cardinality({c \in Returned : calls[c].stores > 0})
    + Cardinality({t \in Threads : InCall(t) /\ stores[t] > 0})

\* Every call made so far has returned.
AllReturned == \A t \in Threads : ~InCall(t)
\* The calls made so far did not overlap: each returned before the next began.
Sequential == maxInCall <= 1
\* K >= 2 threads have called the function, all K calls were in progress at
\* the same time, and all have returned.
ConcurrentRun ==
  NumCalls >= 2 /\ maxInCall = NumCalls /\ AllReturned

----------------------------------------------------------------------------
(* C1 *)

----------------------------------------------------------------------------
(* C2 *)

----------------------------------------------------------------------------
(* C3 *)

\* C3: once a call has returned, a read of any of the four hooks, by any
\* thread and also while another call is at the store of that hook, yields
\* the mimalloc wrapper of that hook's kind and nothing else.
C3_ReadsSeeWinningVTable ==
  AnyReturned => \A kind \in Kinds : RacyRead(kind) = {MiWrapper(kind)}

\* A call has returned and another call is at one of its four stores.
C3_Witness ==
  /\ AnyReturned
  /\ \E t \in Threads : \E kind \in Kinds : pc[t] = StoreLine(kind)

----------------------------------------------------------------------------
(* C5 *)

\* C5: the slot is Set by the time the first call returns; once Set it stays
\* Set with the same four references, and once it has left Unset it never is
\* Unset again, whatever step follows.
C5_SetPersists ==
  [][/\ AnyReturned' => Set'
     /\ Set => (Set' /\ hooks' = hooks)
     /\ ~Unset => ~Unset']_vars

\* The slot is Set, a later call is in progress and the host has allocated
\* after two calls had returned.
C5_Witness ==
  /\ Set
  /\ \E t \in Threads : InCall(t)
  /\ lastAlloc.returned >= 2

----------------------------------------------------------------------------
(* C6 *)

\* C6: a host allocation request issued after a call has returned goes to
\* the mimalloc wrapper of the request's kind, not to the host's built-in
\* function.
C6_RoutedToInstalled ==
  (lastAlloc.kind # "none" /\ lastAlloc.returned > 0) =>
    /\ lastAlloc.target = MiWrapper(lastAlloc.kind)
    /\ lastAlloc.target # Default(lastAlloc.kind)

\* A zero-allocation request was issued after two calls had returned.
C6_Witness ==
  /\ lastAlloc.kind = "calloc"
  /\ lastAlloc.returned >= 2
  /\ lastAlloc.target = c10_mi_calloc

----------------------------------------------------------------------------
(* C7 *)

\* C7, as stated: in every state, the states in the middle of a call
\* included, the slot is entirely unset or holds all four references of one
\* vtable.  (A host allocation request can be served in every state, so
\* every state of the slot is one a host allocation can observe.)
C7_NoPartialInstallation == Unset \/ Set

----------------------------------------------------------------------------
(* C8 *)

----------------------------------------------------------------------------
(* C9 *)

\* C9: with either switch off the function is never called: the slot, the
\* static object and every thread stay as at process start, and every host
\* allocation request goes to the host's built-in function of its kind.
C9_DisabledNothingRuns ==
  ~(AT_MKLDNN_ENABLED /\ USE_MIMALLOC_ON_MKL) =>
    /\ Unset
    /\ calls = <<>>
    /\ g_b_registered_mkl_alloction = FALSE
    /\ \A t \in Threads : ~InCall(t)
    /\ lastAlloc.kind # "none" => lastAlloc.target = Default(lastAlloc.kind)

\* One switch is on, the other off, and the host has served a free request.
C9_Witness ==
  /\ AT_MKLDNN_ENABLED
  /\ ~USE_MIMALLOC_ON_MKL
  /\ lastAlloc.kind = "free"
  /\ lastAlloc.target = Default("free")

----------------------------------------------------------------------------
(* C10 *)

\* C10: with both switches on, the static initializer makes at most one
\* call; once that call has returned each hook holds the wrapper of its own
\* kind, also during and after any further call; once the initializer is
\* finished g_b_registered_mkl_alloction is true; and every call returns
\* true.
C10_StaticInitializer ==
  (AT_MKLDNN_ENABLED /\ USE_MIMALLOC_ON_MKL) =>
    /\ NumStaticCalls <= 1
    /\ pc[StaticInit] \in {"L26", "done"} =>
         /\ i_malloc = c10_mi_malloc
         /\ i_calloc = c10_mi_calloc
         /\ i_realloc = c10_mi_realloc
         /\ i_free = c10_mi_free
    /\ pc[StaticInit] = "done" =>
         /\ g_b_registered_mkl_alloction = TRUE
         /\ NumStaticCalls = 1
    /\ \A c \in Returned : calls[c].value = TRUE

\* The static initializer made the first call and is finished, and a second
\* call, made after it, has returned.
C10_Witness ==
  /\ pc[StaticInit] = "done"
  /\ g_b_registered_mkl_alloction
  /\ Len(calls) >= 2
  /\ calls[1].static
  /\ Sequential

=============================================================================
